---- MODULE Spec2Model ----
(***************************************************************************)
(* actix-web-metrics: the metrics middleware of src/src/lib.rs.            *)
(*                                                                         *)
(* A Rust String is a sequence of one-character strings, so that strfmt,   *)
(* the exclusion regex and the route label are computed character by       *)
(* character as the code computes them; a string whose characters the code *)
(* never looks at (a method, a scheme, a status text) is written as one    *)
(* piece, <<"GET">>.  Metric and label names are TLA+ strings.  Option<T>  *)
(* is a record [some, val].                                                *)
(***************************************************************************)
EXTENDS Integers, Sequences, FiniteSets, TLC

---------------------------------------------------------------------------
(* Bounds of the model *)

\* number of requests the middleware receives
MaxReq == 2
\* number of times a wrapped body is polled before the end of its stream
MaxPolls == 2
\* number of increments of a counter of the application
MaxCount == 2

---------------------------------------------------------------------------
(* Option<T> *)

None == [some |-> FALSE, val |-> <<>>]
Some(v) == [some |-> TRUE, val |-> v]

\* Result<String, FmtError>
Ok(v) == [ok |-> TRUE, val |-> v]
Err == [ok |-> FALSE, val |-> <<>>]

---------------------------------------------------------------------------
(* Strings of the model *)

\* route templates registered with the router
T_h == <<"/", "h">>
T_rab == <<"/", "r", "/", "{", "a", "}", "/", "{", "b", "}">>
T_ui == <<"/", "u", "/", "{", "i", ":", "\\", "d", "+", "}">>
T_vk == <<"/", "v", "/", "{", "k", ":", "s", "}">>

\* request paths
P_h == <<"/", "h">>
P_rf1 == <<"/", "r", "/", "f", "/", "1">>
P_u7 == <<"/", "u", "/", "7">>
P_vs == <<"/", "v", "/", "s">>
P_x == <<"/", "x">>
P_uz == <<"/", "u", "/", "z">>

\* parameter names
K_a == <<"a">>
K_b == <<"b">>
K_i == <<"i">>
K_k == <<"k">>

UNKNOWN == <<"U", "N", "K", "N", "O", "W", "N">>
MASK_M == <<"M">>

\* the regex "/u/.*" of a RegexSet, given by the literal it starts with
RX_u == <<"/", "u", "/">>

NotFound == 404
MethodNotAllowed == 405

---------------------------------------------------------------------------
(* strfmt 0.2: strfmt(fmtstr, vars) *)

\* Formatter::from_str and DisplayStr for String, for a format specifier
\* without fill, alignment, sign, '#', '0', width, ',' or precision
\* characters: what is left after the ':' is the type field.  More than one
\* character is "Invalid format specifier"; one character must be a type
\* element and, for a string value, the type 's'.
SpecOk(spec) ==
    \/ Len(spec) = 0
    \/ Len(spec) = 1 /\ spec[1] = "s"

\* index of the first ':' of s, or 0
RECURSIVE ColonAt(_, _)
ColonAt(s, i) ==
    IF i > Len(s) THEN 0
    ELSE IF s[i] = ":" THEN i
    ELSE ColonAt(s, i + 1)

\* one "{...}" of the format string: the identifier up to the first ':' is
\* looked up in vars (KeyError when absent), the rest is the specifier
FormatOne(pattern, vars) ==
    LET c == ColonAt(pattern, 1)
        key == IF c = 0 THEN pattern ELSE SubSeq(pattern, 1, c - 1)
        spec == IF c = 0 THEN <<>> ELSE SubSeq(pattern, c + 1, Len(pattern))
    IN  IF Len(pattern) = 0 \/ c = 1 THEN Err
        ELSE IF key \notin DOMAIN vars THEN Err
        ELSE IF ~SpecOk(spec) THEN Err
        ELSE Ok(vars[key])

\* strfmt_map: the scan over the characters of fmtstr.  st.reading: inside
\* "{...}" with st.fmt the characters read since the '{'; st.closing: a '}'
\* outside a format was read
RECURSIVE StrfmtScan(_, _, _, _)
StrfmtScan(fmtstr, vars, i, st) ==
    IF i > Len(fmtstr)
    THEN IF st.closing \/ st.reading THEN Err ELSE Ok(st.out)
    ELSE
    LET c == fmtstr[i]
        next(s) == StrfmtScan(fmtstr, vars, i + 1, s)
    IN  IF c = "{" THEN
            IF st.reading /\ st.fmt = <<>>
            THEN next([st EXCEPT !.out = @ \o <<c>>, !.reading = FALSE])
            ELSE IF ~st.reading
            THEN next([st EXCEPT !.reading = TRUE, !.fmt = <<>>])
            ELSE Err
        ELSE IF c = "}" THEN
            IF ~st.reading /\ ~st.closing
            THEN next([st EXCEPT !.closing = TRUE])
            ELSE IF st.closing
            THEN next([st EXCEPT !.out = @ \o <<c>>, !.closing = FALSE])
            ELSE LET f == FormatOne(st.fmt, vars)
                 IN  IF f.ok
                     THEN next([st EXCEPT !.out = @ \o f.val,
                                          !.reading = FALSE, !.fmt = <<>>])
                     ELSE Err
        ELSE IF st.closing THEN Err
        ELSE IF ~st.reading THEN next([st EXCEPT !.out = @ \o <<c>>])
        ELSE next([st EXCEPT !.fmt = @ \o <<c>>])

strfmt(fmtstr, vars) ==
    StrfmtScan(fmtstr, vars, 1,
               [out |-> <<>>, reading |-> FALSE, closing |-> FALSE, fmt |-> <<>>])

---------------------------------------------------------------------------
(* regex::RegexSet::is_match for the patterns "<literal>.*" *)

\* lit occurs in s (the patterns are not anchored)
Contains(s, lit) ==
    \E i \in 1..(Len(s) + 1) :
        /\ i + Len(lit) - 1 <= Len(s)
        /\ SubSeq(s, i, i + Len(lit) - 1) = lit

is_match(exclude_regex, s) == \E lit \in exclude_regex : Contains(s, lit)

---------------------------------------------------------------------------
(* Constant labels: ActixWebMetricsBuilder::const_labels and their sort in build *)

\* the characters of the label keys of the model; keys are compared as
\* Rust compares &str, byte by byte
CharsOf(k) ==
    CASE k = "label1" -> <<"l", "a", "b", "e", "l", "1">>
      [] k = "label2" -> <<"l", "a", "b", "e", "l", "2">>
      [] k = "label10" -> <<"l", "a", "b", "e", "l", "1", "0">>
      [] k = "http.request.method" ->
            <<"h", "t", "t", "p", ".", "r", "e", "q", "u", "e", "s", "t", ".",
              "m", "e", "t", "h", "o", "d">>

\* the characters of label keys in the order of their bytes
AsciiOrder ==
    <<".", "0", "1", "2", "3", "4", "5", "6", "7", "8", "9", "_",
      "a", "b", "c", "d", "e", "f", "g", "h", "i", "j", "k", "l", "m",
      "n", "o", "p", "q", "r", "s", "t", "u", "v", "w", "x", "y", "z">>

ByteRank(c) == CHOOSE i \in DOMAIN AsciiOrder : AsciiOrder[i] = c

\* Ord for str: a < b
RECURSIVE SeqLess(_, _)
SeqLess(a, b) ==
    IF b = <<>> THEN FALSE
    ELSE IF a = <<>> THEN TRUE
    ELSE IF ByteRank(Head(a)) # ByteRank(Head(b))
    THEN ByteRank(Head(a)) < ByteRank(Head(b))
    ELSE SeqLess(Tail(a), Tail(b))

StrLess(j, k) == SeqLess(CharsOf(j), CharsOf(k))

\* the HashMap<String, String> values given to const_labels
ConstLabelMaps ==
    {<<>>,
     ("label1" :> <<"value1">>) @@ ("label2" :> <<"value2">>)
        @@ ("label10" :> <<"value10">>),
     ("http.request.method" :> <<"x">>),
     ("label2" :> <<"value2">>) @@ ("http.request.method" :> <<"x">>)}

\* the orders in which self.const_labels.iter() may go through a map: every
\* arrangement of its entries
Iterations(map) ==
    {v \in [1..Cardinality(DOMAIN map) -> {<<k, map[k]>> : k \in DOMAIN map}] :
        \A i, j \in DOMAIN v : i # j => v[i] # v[j]}

\* one step of the stable sort: e put after the entries whose key is not greater
RECURSIVE InsertByKey(_, _)
InsertByKey(sorted, e) ==
    IF sorted = <<>> THEN <<e>>
    ELSE IF StrLess(e[1], Head(sorted)[1]) THEN <<e>> \o sorted
    ELSE <<Head(sorted)>> \o InsertByKey(Tail(sorted), e)

\* variant: the vector is left in the order of the map's iteration
sort_by_key_Unsorted(v) == v

\* const_labels.sort_by_key(|v| v.0)
RECURSIVE sort_by_key(_)
sort_by_key(v) ==
    IF v = <<>> THEN <<>>
    ELSE InsertByKey(sort_by_key(SubSeq(v, 1, Len(v) - 1)), v[Len(v)])

---------------------------------------------------------------------------
(* Configuration: ActixWebMetricsInner, fixed by ActixWebMetricsBuilder::build *)

\* LabelsConfig::default
DefaultLabels ==
    [http_route |-> "http.route",
     http_request_method |-> "http.request.method",
     http_response_status_code |-> "http.response.status_code",
     network_protocol_name |-> "network.protocol.name",
     network_protocol_version |-> "network.protocol.version",
     url_scheme |-> "url.scheme"]

\* ActixWebMetricsConfig::default
DefaultMetricsConfig ==
    [http_server_request_duration_name |-> "http.server.request.duration",
     http_server_request_body_size_name |-> "http.server.request.body.size",
     http_server_response_body_size_name |-> "http.server.response.body.size",
     http_server_active_requests_name |-> "http.server.active_requests",
     labels |-> DefaultLabels]

\* the Option<String> of the namespace
NoNamespace == [some |-> FALSE, val |-> ""]
Namespace(value) == [some |-> TRUE, val |-> value]

\* ActixWebMetricsBuilder::new(); const_labels holds the entries of the
\* HashMap in the order in which iter() goes through them
new ==
    [namespace |-> NoNamespace,
     const_labels |-> <<>>,
     exclude |-> {},
     exclude_regex |-> {},
     exclude_status |-> {},
     unmatched_patterns_mask |-> Some(UNKNOWN),
     metrics_config |-> DefaultMetricsConfig]

\* ActixWebMetricsBuilder::build: the ActixWebMetricsInner of the middleware
build(self) ==
    LET namespace_prefix ==
            IF self.namespace.some THEN self.namespace.val \o "_" ELSE ""
        config == self.metrics_config
    IN  [names |->
            [http_server_request_duration |->
                namespace_prefix \o config.http_server_request_duration_name,
             http_server_request_body_size |->
                namespace_prefix \o config.http_server_request_body_size_name,
             http_server_response_body_size |->
                namespace_prefix \o config.http_server_response_body_size_name,
             http_server_active_requests |->
                namespace_prefix \o config.http_server_active_requests_name,
             http_route |-> config.labels.http_route,
             http_request_method |-> config.labels.http_request_method,
             http_response_status_code |-> config.labels.http_response_status_code,
             network_protocol_name |-> config.labels.network_protocol_name,
             network_protocol_version |-> config.labels.network_protocol_version,
             url_scheme |-> config.labels.url_scheme,
             const_labels |-> sort_by_key(self.const_labels)],
         exclude |-> self.exclude,
         exclude_regex |-> self.exclude_regex,
         exclude_status |-> self.exclude_status,
         unmatched_patterns_mask |-> self.unmatched_patterns_mask]

\* ActixWebMetricsBuilder::new() followed by exclude, exclude_regex,
\* exclude_status, mask_unmatched_patterns, disable_unmatched_pattern_masking
\* and build
Inner(exclude, exclude_regex, exclude_status, mask) ==
    build([new EXCEPT !.exclude = exclude,
                      !.exclude_regex = exclude_regex,
                      !.exclude_status = exclude_status,
                      !.unmatched_patterns_mask = mask])

Masks == {Some(UNKNOWN), Some(MASK_M), None}

Configs ==
    {Inner(e, x, s, m) : e \in {{}, {P_h}, {P_x}, {P_rf1}},
                         x \in {{}, {RX_u}},
                         s \in {{}, {NotFound}},
                         m \in Masks}

\* configurations of the specification with concurrent requests
LifeConfigs ==
    {Inner({}, {}, {}, Some(UNKNOWN)),
     Inner({P_h}, {}, {NotFound}, None)}

\* ActixWebMetricsBuilder::new().const_labels(map).build(), the map iterated
\* in the order v
BuildWithConstLabels(v) == build([new EXCEPT !.const_labels = v])

ConstLabelConfigs ==
    {BuildWithConstLabels(v) : v \in UNION {Iterations(m) : m \in ConstLabelMaps}}

\* builders with a namespace and with a metrics_config: the gauge and a
\* label renamed, and the method label given the name of the scheme label
NamedBuilders ==
    {[new EXCEPT !.namespace = Namespace("api")],
     [new EXCEPT !.metrics_config.http_server_active_requests_name = "my_active",
                 !.metrics_config.labels.http_route = "route"],
     [new EXCEPT !.metrics_config.labels.http_request_method = "url.scheme"]}

NamedConfigs == {build(self) : self \in NamedBuilders}

---------------------------------------------------------------------------
(* Requests and what the inner service makes of them *)

GET == <<"GET">>
POST == <<"POST">>
HTTPS == <<"https">>
HTTP_11 == <<"HTTP/1.1">>
HTTP_09 == <<"HTTP/0.9">>
HTTP_10 == <<"HTTP/1.0">>
HTTP_2 == <<"HTTP/2.0">>
HTTP_3 == <<"HTTP/3.0">>

\* the values of http::Version a request can have
Versions == {HTTP_09, HTTP_10, HTTP_11, HTTP_2, HTTP_3}

Methods == {GET, POST}
Statuses == {200, 400, NotFound, MethodNotAllowed, 500}

\* StatusCode::as_str
StatusStr(status) ==
    CASE status = 200 -> <<"200">>
      [] status = 400 -> <<"400">>
      [] status = NotFound -> <<"404">>
      [] status = MethodNotAllowed -> <<"405">>
      [] status = 500 -> <<"500">>

\* the request as MetricsMiddleware::call receives it
CallRequests ==
    {[method |-> m, uri_scheme |-> s] :
        m \in Methods, s \in {None, Some(HTTPS)}}

LifeCallRequests ==
    {[method |-> GET, uri_scheme |-> None],
     [method |-> POST, uri_scheme |-> Some(HTTPS)]}

\* the router's result for a request path: the matched resource pattern and
\* the parameters it bound, or no match
Routed ==
    {[path |-> P_h, match_pattern |-> Some(T_h), match_info |-> <<>>],
     [path |-> P_rf1, match_pattern |-> Some(T_rab),
      match_info |-> (K_a :> <<"f">>) @@ (K_b :> <<"1">>)],
     [path |-> P_u7, match_pattern |-> Some(T_ui),
      match_info |-> (K_i :> <<"7">>)],
     [path |-> P_vs, match_pattern |-> Some(T_vk),
      match_info |-> (K_k :> <<"s">>)]}

Unrouted ==
    {[path |-> p, match_pattern |-> None, match_info |-> <<>>] :
        p \in {P_x, P_uz}}

\* the ActixWebMetricsExtension a route's wrap_fn may insert
Extensions(m) ==
    {None} \cup {Some(k) : k \in (SUBSET DOMAIN m.match_info) \ {{}}}

\* BodySize of the response body the inner service returns
BodySize_None == <<"None">>
BodySize_Stream == <<"Stream">>
BodySize_Sized(n) == <<"Sized", n>>
BodySizes == {BodySize_None, BodySize_Stream, BodySize_Sized(3)}

\* what the inner service returns with Ok(res): the request as routed, and
\* the response head and body.  rewrite: the method and the URI scheme an
\* inner middleware gave the request through head_mut(), or None when the
\* request head is as it was received
Routings(m, statuses) ==
    {[path |-> m.path, match_pattern |-> m.match_pattern,
      match_info |-> m.match_info, extension |-> e,
      version |-> HTTP_11, content_length |-> None, rewrite |-> None,
      body_size |-> BodySize_Stream, status |-> s] :
        e \in Extensions(m), s \in statuses}

\* request heads rewritten below the middleware
Rewrites ==
    {Some([method |-> POST, uri_scheme |-> Some(HTTPS)]),
     Some([method |-> GET, uri_scheme |-> None])}

\* the route /h answered with 200, the request head rewritten
Rewritten ==
    {[x EXCEPT !.rewrite = w] : x \in Routings(CHOOSE m \in Routed : m.path = P_h, {200}),
                               w \in Rewrites}

InnerResults ==
    UNION {Routings(m, Statuses) : m \in Routed \cup Unrouted} \cup Rewritten

\* inner results of the specification with concurrent requests
LifeInnerResults ==
    {x \in InnerResults :
        \/ x.path = P_h /\ x.status = 200 /\ ~x.rewrite.some
        \/ x.path = P_rf1 /\ x.extension = Some({K_a}) /\ x.status = NotFound}

\* a byte of a header value is written as its character when it is visible
\* ASCII; these are bytes that are not
NonAsciiBytes == {"0xFF"}

\* values of the content-length header of the request
ContentLengths ==
    {None, Some(<<"7">>), Some(<<"1", "2">>), Some(<<"0", "0", "5">>),
     Some(<<"+", "3">>), Some(<<>>), Some(<<"x">>), Some(<<"-", "1">>),
     Some(<<"7", " ">>), Some(<<"1", "0xFF">>),
     Some(<<"1", "8", "4", "4", "6", "7", "4", "4", "0", "7", "3", "7", "0", "9",
            "5", "5", "1", "6", "1", "5">>),
     Some(<<"1", "8", "4", "4", "6", "7", "4", "4", "0", "7", "3", "7", "0", "9",
            "5", "5", "1", "6", "1", "6">>)}

\* the route /h with a default configuration: every status, every
\* content-length header and every declared body size
AppInnerResults ==
    {[x EXCEPT !.content_length = c, !.body_size = b] :
        x \in Routings(CHOOSE m \in Routed : m.path = P_h, Statuses),
        c \in ContentLengths, b \in BodySizes}

\* the request as MetricsMiddleware::call receives it, with its
\* content-length header
HeadCallRequests ==
    {[method |-> GET, uri_scheme |-> None, content_length |-> c] :
        c \in {None, Some(<<"7">>), Some(<<"1", "2">>)}}

\* the route /h under every HTTP version; content_length is the header of
\* res.request(): the one the request was received with, or the one an inner
\* middleware left through headers_mut()
HeadInnerResults ==
    {[x EXCEPT !.version = v, !.content_length = c] :
        x \in Routings(CHOOSE m \in Routed : m.path = P_h, {200, NotFound}),
        v \in Versions,
        c \in {None, Some(<<"7">>), Some(<<"1", "2">>), Some(<<"x">>)}}

\* names of the counters the application records with counter!
UserCounters == {"counter"}

\* the actix_web::Error values an inner service fails with
Errors == {<<"ErrorBadRequest">>, <<"ErrorInternalServerError">>}
LifeErrors == {<<"ErrorInternalServerError">>}

\* what B::poll_next of the inner body returns when it is ready: a chunk,
\* given by its length, an error, or the end of the stream
ChunkLens == {1, 2}
Ready(kind, len) == [kind |-> kind, len |-> len]
BodyItems == {Ready("chunk", n) : n \in ChunkLens} \cup {Ready("err", 0), Ready("end", 0)}

\* body items of the specification with concurrent requests
LifeBodyItems == {Ready("chunk", 2), Ready("end", 0)}

\* Poll::Pending of the inner body
Pending == Ready("pending", 0)

---------------------------------------------------------------------------
(* LoggerResponse::poll: what it reads from res.request() *)

url_scheme(uri_scheme) == IF uri_scheme.some THEN uri_scheme.val ELSE <<"http">>

\* the params map built from req.match_info(): the literal value for a
\* parameter of cardinality_keep_params, "{key}" for any other
ParamsOf(match_info, keep) ==
    [key \in DOMAIN match_info |->
        IF key \in keep THEN match_info[key] ELSE <<"{">> \o key \o <<"}">>]

params_keep_path_cardinality(req) ==
    IF req.extension.some THEN req.extension.val ELSE {}

fallback_pattern(req) ==
    IF req.match_pattern.some THEN req.match_pattern.val ELSE req.path

\* variant: when strfmt fails the label is the request path
mixed_pattern_PathOnErr(req) ==
    IF ~req.match_pattern.some THEN req.path
    ELSE LET full_pattern == req.match_pattern.val
             params == ParamsOf(req.match_info, params_keep_path_cardinality(req))
             mixed_cardinality_pattern == strfmt(full_pattern, params)
         IN  IF mixed_cardinality_pattern.ok
             THEN mixed_cardinality_pattern.val
             ELSE req.path

mixed_pattern(req) ==
    IF ~req.match_pattern.some THEN req.path
    ELSE LET full_pattern == req.match_pattern.val
             params == ParamsOf(req.match_info, params_keep_path_cardinality(req))
             mixed_cardinality_pattern == strfmt(full_pattern, params)
         IN  IF mixed_cardinality_pattern.ok
             THEN mixed_cardinality_pattern.val
             ELSE full_pattern

\* usize::from_str on the header text: digits after an optional '+'
DigitVal(c) ==
    CASE c = "0" -> 0 [] c = "1" -> 1 [] c = "2" -> 2 [] c = "3" -> 3
      [] c = "4" -> 4 [] c = "5" -> 5 [] c = "6" -> 6 [] c = "7" -> 7
      [] c = "8" -> 8 [] c = "9" -> 9 [] OTHER -> -1

\* the digits, by their values
DigitChars == <<"0", "1", "2", "3", "4", "5", "6", "7", "8", "9">>

\* a usize is written as its decimal numeral without leading zeros, so that
\* every value up to usize::MAX has one
Zero == <<"0">>
One == <<"1">>

\* the numeral of a usize n given as an integer
RECURSIVE Decimal(_)
Decimal(n) ==
    IF n < 10 THEN <<DigitChars[n + 1]>>
    ELSE Decimal(n \div 10) \o <<DigitChars[(n % 10) + 1]>>

\* usize::MAX, 2^64 - 1
USIZE_MAX ==
    <<"1", "8", "4", "4", "6", "7", "4", "4", "0", "7", "3", "7", "0", "9", "5",
      "5", "1", "6", "1", "5">>

\* t without its leading zeros, the last digit kept
RECURSIVE StripZeros(_)
StripZeros(t) ==
    IF Len(t) > 1 /\ t[1] = "0" THEN StripZeros(Tail(t)) ELSE t

\* a < b, for numerals of the same length
RECURSIVE DigitsLess(_, _)
DigitsLess(a, b) ==
    IF a = <<>> THEN FALSE
    ELSE IF Head(a) # Head(b) THEN DigitVal(Head(a)) < DigitVal(Head(b))
    ELSE DigitsLess(Tail(a), Tail(b))

\* a < b, for numerals without leading zeros
NumLess(a, b) ==
    IF Len(a) # Len(b) THEN Len(a) < Len(b) ELSE DigitsLess(a, b)

\* result.checked_mul(10) and then checked_add(digit) for each character;
\* None at a character that is not a digit and when usize::MAX is exceeded
RECURSIVE ParseDigits(_, _, _)
ParseDigits(s, i, acc) ==
    IF i > Len(s) THEN Some(acc)
    ELSE IF DigitVal(s[i]) < 0 THEN None
    ELSE LET next == IF acc = Zero THEN <<s[i]>> ELSE Append(acc, s[i])
         IN  IF NumLess(USIZE_MAX, next) THEN None
             ELSE ParseDigits(s, i + 1, next)

\* str::parse::<usize>
ParseUsize(s) ==
    LET d == IF Len(s) > 0 /\ s[1] = "+" THEN Tail(s) ELSE s
    IN  IF Len(d) = 0 THEN None ELSE ParseDigits(d, 1, Zero)

\* 2^53: every usize below it is an f64
F64_EXACT ==
    <<"9", "0", "0", "7", "1", "9", "9", "2", "5", "4", "7", "4", "0", "9", "9", "2">>

\* the digits of n / 2, n given with a carry in front
RECURSIVE HalveFrom(_, _)
HalveFrom(n, carry) ==
    IF n = <<>> THEN <<>>
    ELSE LET v == carry * 10 + DigitVal(Head(n))
         IN  <<DigitChars[(v \div 2) + 1]>> \o HalveFrom(Tail(n), v % 2)

Half(n) == StripZeros(HalveFrom(n, 0))
Odd(n) == DigitVal(n[Len(n)]) % 2 = 1

\* n + n + carry
RECURSIVE DoubleFrom(_, _)
DoubleFrom(n, carry) ==
    IF n = <<>> THEN (IF carry = 0 THEN <<>> ELSE <<DigitChars[carry + 1]>>)
    ELSE LET v == 2 * DigitVal(n[Len(n)]) + carry
         IN  DoubleFrom(SubSeq(n, 1, Len(n) - 1), v \div 10)
                \o <<DigitChars[(v % 10) + 1]>>

\* n * 2^k
RECURSIVE ShiftLeft(_, _)
ShiftLeft(n, k) ==
    IF k = 0 THEN n ELSE ShiftLeft(StripZeros(DoubleFrom(n, 0)), k - 1)

\* n + 1
RECURSIVE Succ(_)
Succ(n) ==
    IF n = <<>> THEN One
    ELSE IF n[Len(n)] = "9" THEN Succ(SubSeq(n, 1, Len(n) - 1)) \o Zero
    ELSE SubSeq(n, 1, Len(n) - 1) \o <<DigitChars[DigitVal(n[Len(n)]) + 2]>>

\* q is n shifted right by k bits; half: the last bit shifted out was 1;
\* sticky: a bit shifted out before it was 1.  With at most 53 bits left, q
\* is rounded to the nearest integer, ties to the even one, and shifted back
RECURSIVE RoundShift(_, _, _, _)
RoundShift(q, half, sticky, k) ==
    IF NumLess(q, F64_EXACT)
    THEN ShiftLeft(IF half /\ (sticky \/ Odd(q)) THEN Succ(q) ELSE q, k)
    ELSE RoundShift(Half(q), Odd(q), sticky \/ half, k + 1)

\* n as f64, for a usize or u64 n: the f64 nearest to n, an integer, by its
\* numeral
as_f64(n) == RoundShift(n, FALSE, FALSE, 0)

\* an f64 that is not negative, exactly: its integer part, by its numeral,
\* and the bits of its fraction after the binary point, up to the last 1
F64(whole, fraction) == <<whole, fraction>>

\* number of bits of the mantissa of an f64
MANTISSA_DIGITS == 53

\* 1_000_000_000_f64
NANOS_PER_SEC == 1000000000

\* n halved until nothing is left, at most k times more; count the number of
\* halvings so far.  The steps after the first are taken half by half
RECURSIVE Halvings(_, _)
Halvings(st, k) ==
    IF k = 0 \/ st.n = Zero THEN st
    ELSE LET next == [n |-> Half(st.n), count |-> st.count + 1] IN
         IF k = 1 \/ next.n = Zero THEN next
         ELSE Halvings(Halvings(next, (k - 1) \div 2),
                       (k - 1) - (k - 1) \div 2)

\* number of bits of n, for n up to 2^64
BitLen(n) == Halvings([n |-> n, count |-> 0], 65).count

\* bits without the zeros at their end
StripBits(bits) ==
    LET ones == {i \in DOMAIN bits : bits[i] = 1}
    IN  IF ones = {} THEN <<>>
        ELSE SubSeq(bits, 1, CHOOSE i \in ones : \A j \in ones : j <= i)

\* bits + 1 in the last place, and the carry out of the first
IncBits(bits) ==
    LET zeros == {i \in DOMAIN bits : bits[i] = 0}
        last == CHOOSE i \in zeros : \A j \in zeros : j <= i
    IN  IF zeros = {}
        THEN [bits |-> [i \in DOMAIN bits |-> 0], carry |-> 1]
        ELSE [bits |-> [i \in DOMAIN bits |->
                            IF i < last THEN bits[i] ELSE IF i = last THEN 1 ELSE 0],
              carry |-> 0]

\* one more bit of rem / 10^9 after the binary point, rem < 10^9 the
\* remainder so far; significant counts the bits from the first 1 on
DivStep(st) ==
    LET b == IF 2 * st.rem >= NANOS_PER_SEC THEN 1 ELSE 0
    IN  [rem |-> 2 * st.rem - b * NANOS_PER_SEC,
         bits |-> Append(st.bits, b),
         significant |-> IF st.significant > 0 \/ b = 1
                         THEN st.significant + 1 ELSE 0]

\* at most k more bits: as many as the mantissa holds from the first 1 on,
\* fewer when the division comes out even.  The steps after the first are
\* taken half by half
RECURSIVE DivBits(_, _)
DivBits(st, k) ==
    IF k = 0 \/ st.rem = 0 \/ st.significant = MANTISSA_DIGITS THEN st
    ELSE LET next == DivStep(st) IN
         IF k = 1 \/ next.rem = 0 THEN next
         ELSE DivBits(DivBits(next, (k - 1) \div 2), (k - 1) - (k - 1) \div 2)

\* a quotient of at least 1 / 10^9 has fewer than 30 zeros before its
\* first 1
MAX_LEADING_ZEROS == 30

\* f64::from(nanos) / 1_000_000_000_f64 for a u32 nanos below 10^9: the
\* quotient rounded to the nearest f64, ties to even; the bits of the
\* fraction
nanos_as_secs_f64(nanos) ==
    LET q == DivBits([rem |-> nanos, bits |-> <<>>, significant |-> 0],
                     MAX_LEADING_ZEROS + MANTISSA_DIGITS)
        up == \/ 2 * q.rem > NANOS_PER_SEC
              \/ 2 * q.rem = NANOS_PER_SEC /\ q.bits[Len(q.bits)] = 1
    IN  StripBits(IF up THEN IncBits(q.bits).bits ELSE q.bits)

\* whole + fraction in f64, whole an f64 that is an integer and fraction
\* the bits of an f64 below 1: the sum rounded to the bits of the mantissa,
\* ties to even
f64_add(whole, fraction) ==
    IF whole = Zero \/ fraction = <<>> THEN F64(whole, fraction)
    \* a numeral of d digits has at most 4 * d bits: the sum is exact
    ELSE IF 4 * Len(whole) + Len(fraction) <= MANTISSA_DIGITS
    THEN F64(whole, fraction)
    ELSE LET kept == MANTISSA_DIGITS - BitLen(whole) IN
         IF kept < 0 THEN F64(whole, <<>>)
         ELSE IF Len(fraction) <= kept THEN F64(whole, fraction)
         ELSE LET head == SubSeq(fraction, 1, kept)
                  round == fraction[kept + 1] = 1
                  sticky == \E i \in (kept + 2)..Len(fraction) : fraction[i] = 1
                  odd == IF kept > 0 THEN head[kept] = 1 ELSE Odd(whole)
                  p == IncBits(head)
              IN  IF round /\ (sticky \/ odd)
                  THEN F64(IF p.carry = 1 THEN Succ(whole) ELSE whole,
                           StripBits(p.bits))
                  ELSE F64(whole, StripBits(head))

\* HeaderValue::to_str: the bytes as text when each is a visible ASCII
\* character
to_str(v) ==
    IF \E i \in DOMAIN v : v[i] \in NonAsciiBytes THEN None ELSE Some(v)

\* variant: a header that is not an unsigned integer is read as 1
request_size_One(req) ==
    IF ~req.content_length.some THEN Zero
    ELSE LET t == to_str(req.content_length.val)
         IN  IF ~t.some THEN Zero
             ELSE LET n == ParseUsize(t.val)
                  IN  IF n.some THEN n.val ELSE One

\* headers().get("content-length").and_then(to_str).and_then(parse).unwrap_or(0)
request_size(req) ==
    IF ~req.content_length.some THEN Zero
    ELSE LET t == to_str(req.content_length.val)
         IN  IF ~t.some THEN Zero
             ELSE LET n == ParseUsize(t.val)
                  IN  IF n.some THEN n.val ELSE Zero

\* the StreamLog that res.map_body builds around the inner body
NewStreamLog(req, status, body) ==
    [body |-> body,
     response_size |-> 0,
     request_size |-> request_size(req),
     status |-> status,
     scheme |-> url_scheme(req.uri_scheme),
     mixed_pattern |-> mixed_pattern(req),
     fallback_pattern |-> fallback_pattern(req),
     method |-> req.method,
     version |-> req.version,
     was_path_matched |-> req.match_pattern.some]

NoLog == [response_size |-> -1]

\* MessageBody::size of StreamLog
size(this) == this.body.size

---------------------------------------------------------------------------
(* ActixWebMetrics: what is sent to the metrics recorder *)

GaugeOp(name, labels, delta) == [name |-> name, labels |-> labels, delta |-> delta]
Record(name, labels, value) == [name |-> name, labels |-> labels, value |-> value]

\* what clock.elapsed() returns when the body is dropped: a Duration, by its
\* whole seconds (a u64, as its numeral) and the nanoseconds beyond them (a
\* u32 below 10^9).  The value is the clock's, and positive; the last is
\* 2^24 s and 1 ns, whose sum in f64 is rounded
Elapsed ==
    {[secs |-> Zero, nanos |-> 200],
     [secs |-> Zero, nanos |-> 9321],
     [secs |-> One, nanos |-> 500000000],
     [secs |-> Decimal(16777216), nanos |-> 1]}

\* the one duration of the specifications with many other inputs
LifeElapsed == {[secs |-> One, nanos |-> 500000000]}

\* (elapsed.as_secs() as f64) + f64::from(elapsed.subsec_nanos()) / 1e9
duration(elapsed) ==
    f64_add(as_f64(elapsed.secs), nanos_as_secs_f64(elapsed.nanos))

\* variant: the gauge is registered under the name of the application's
\* counter
pre_request_update_metrics_UserName(this, req) ==
    LET labels == <<<<this.names.http_request_method, req.method>>,
                    <<this.names.url_scheme, url_scheme(req.uri_scheme)>>>>
                  \o this.names.const_labels
    IN  [gauge |-> <<GaugeOp("counter", labels, 1)>>,
         histogram |-> <<>>]

\* gauge!(active_requests, labels).increment(1)
pre_request_update_metrics(this, req) ==
    LET labels == <<<<this.names.http_request_method, req.method>>,
                    <<this.names.url_scheme, url_scheme(req.uri_scheme)>>>>
                  \o this.names.const_labels
    IN  [gauge |-> <<GaugeOp(this.names.http_server_active_requests, labels, 1)>>,
         histogram |-> <<>>]

\* the exclusion test of post_request_update_metrics
Excluded(this, mixed, status) ==
    \/ mixed \in this.exclude
    \/ is_match(this.exclude_regex, mixed)
    \/ status \in this.exclude_status

\* variant: the 404/405 correction is made for 404 alone
FinalPattern_Only404(this, log) ==
    LET final_pattern ==
            IF log.fallback_pattern # log.mixed_pattern /\ log.status = NotFound
            THEN log.fallback_pattern
            ELSE log.mixed_pattern
    IN  IF log.was_path_matched THEN final_pattern
        ELSE IF this.unmatched_patterns_mask.some
        THEN this.unmatched_patterns_mask.val
        ELSE final_pattern

\* variant: the mask is never applied
FinalPattern_NoMask(this, log) ==
    IF /\ log.fallback_pattern # log.mixed_pattern
       /\ (log.status = NotFound \/ log.status = MethodNotAllowed)
    THEN log.fallback_pattern
    ELSE log.mixed_pattern

\* variant: the correction is made for every client error, 400 to 499
FinalPattern_All4xx(this, log) ==
    LET final_pattern ==
            IF /\ log.fallback_pattern # log.mixed_pattern
               /\ log.status >= 400 /\ log.status <= 499
            THEN log.fallback_pattern
            ELSE log.mixed_pattern
    IN  IF log.was_path_matched THEN final_pattern
        ELSE IF this.unmatched_patterns_mask.some
        THEN this.unmatched_patterns_mask.val
        ELSE final_pattern

\* variant: the 404/405 correction is made for GET requests only
FinalPattern_ByMethod(this, log) ==
    LET final_pattern ==
            IF /\ log.fallback_pattern # log.mixed_pattern
               /\ (log.status = NotFound \/ log.status = MethodNotAllowed)
               /\ log.method = GET
            THEN log.fallback_pattern
            ELSE log.mixed_pattern
    IN  IF log.was_path_matched THEN final_pattern
        ELSE IF this.unmatched_patterns_mask.some
        THEN this.unmatched_patterns_mask.val
        ELSE final_pattern

\* variant: a request answered with 404 is masked like an unmatched one
FinalPattern_MaskOn404(this, log) ==
    LET final_pattern ==
            IF /\ log.fallback_pattern # log.mixed_pattern
               /\ (log.status = NotFound \/ log.status = MethodNotAllowed)
            THEN log.fallback_pattern
            ELSE log.mixed_pattern
    IN  IF log.was_path_matched /\ log.status # NotFound THEN final_pattern
        ELSE IF this.unmatched_patterns_mask.some
        THEN this.unmatched_patterns_mask.val
        ELSE final_pattern

\* the route label of post_request_update_metrics: the 404/405 correction,
\* then the mask of an unmatched path
FinalPattern(this, log) ==
    LET final_pattern ==
            IF /\ log.fallback_pattern # log.mixed_pattern
               /\ (log.status = NotFound \/ log.status = MethodNotAllowed)
            THEN log.fallback_pattern
            ELSE log.mixed_pattern
    IN  IF log.was_path_matched THEN final_pattern
        ELSE IF this.unmatched_patterns_mask.some
        THEN this.unmatched_patterns_mask.val
        ELSE final_pattern

\* variant: HTTP/3 has no version label
http_version_label_NoHttp3(version) ==
    CASE version = <<"HTTP/0.9">> -> Some(<<"0.9">>)
      [] version = <<"HTTP/1.0">> -> Some(<<"1.0">>)
      [] version = HTTP_11 -> Some(<<"1.1">>)
      [] version = <<"HTTP/2.0">> -> Some(<<"2">>)
      [] OTHER -> None

http_version_label(version) ==
    CASE version = <<"HTTP/0.9">> -> Some(<<"0.9">>)
      [] version = <<"HTTP/1.0">> -> Some(<<"1.0">>)
      [] version = HTTP_11 -> Some(<<"1.1">>)
      [] version = <<"HTTP/2.0">> -> Some(<<"2">>)
      [] version = <<"HTTP/3.0">> -> Some(<<"3">>)
      [] OTHER -> None

HistogramLabels(this, log) ==
    <<<<this.names.http_route, FinalPattern(this, log)>>,
      <<this.names.http_request_method, log.method>>,
      <<this.names.http_response_status_code, StatusStr(log.status)>>,
      <<this.names.network_protocol_name, <<"http">>>>>>
    \o (IF http_version_label(log.version).some
        THEN <<<<this.names.network_protocol_version,
                 http_version_label(log.version).val>>>>
        ELSE <<>>)
    \o this.names.const_labels

\* variant: the exclusion test comes first and returns before the gauge is
\* decremented
post_request_update_metrics_ExcludeFirst(this, log, elapsed) ==
    LET active_request_labels ==
            <<<<this.names.http_request_method, log.method>>,
              <<this.names.url_scheme, log.scheme>>>>
            \o this.names.const_labels
        labels == HistogramLabels(this, log)
    IN  IF Excluded(this, log.mixed_pattern, log.status)
        THEN [gauge |-> <<>>, histogram |-> <<>>]
        ELSE [gauge |-> <<GaugeOp(this.names.http_server_active_requests,
                                  active_request_labels, -1)>>,
              histogram |->
                <<Record(this.names.http_server_request_duration, labels, duration(elapsed)),
                  Record(this.names.http_server_request_body_size, labels,
                          F64(as_f64(log.request_size), <<>>)),
                  Record(this.names.http_server_response_body_size, labels,
                          F64(as_f64(Decimal(log.response_size)), <<>>))>>]

\* variant: the exclusion rules are applied to the final route label
post_request_update_metrics_ExcludeFinal(this, log, elapsed) ==
    LET active_request_labels ==
            <<<<this.names.http_request_method, log.method>>,
              <<this.names.url_scheme, log.scheme>>>>
            \o this.names.const_labels
        labels == HistogramLabels(this, log)
    IN  [gauge |-> <<GaugeOp(this.names.http_server_active_requests,
                             active_request_labels, -1)>>,
         histogram |->
            IF Excluded(this, FinalPattern(this, log), log.status)
            THEN <<>>
            ELSE <<Record(this.names.http_server_request_duration, labels, duration(elapsed)),
                   Record(this.names.http_server_request_body_size, labels,
                          F64(as_f64(log.request_size), <<>>)),
                   Record(this.names.http_server_response_body_size, labels,
                          F64(as_f64(Decimal(log.response_size)), <<>>))>>]

\* variant: the response size of an empty body is not recorded
post_request_update_metrics_SkipEmptyBody(this, log, elapsed) ==
    LET active_request_labels ==
            <<<<this.names.http_request_method, log.method>>,
              <<this.names.url_scheme, log.scheme>>>>
            \o this.names.const_labels
        labels == HistogramLabels(this, log)
    IN  [gauge |-> <<GaugeOp(this.names.http_server_active_requests,
                             active_request_labels, -1)>>,
         histogram |->
            IF Excluded(this, log.mixed_pattern, log.status)
            THEN <<>>
            ELSE <<Record(this.names.http_server_request_duration, labels, duration(elapsed)),
                   Record(this.names.http_server_request_body_size, labels,
                          F64(as_f64(log.request_size), <<>>))>>
                 \o (IF log.response_size = 0 THEN <<>>
                     ELSE <<Record(this.names.http_server_response_body_size,
                                   labels,
                          F64(as_f64(Decimal(log.response_size)), <<>>))>>)]

\* variant: the gauge is decremented a second time after the records
post_request_update_metrics_DecrementTwice(this, log, elapsed) ==
    LET active_request_labels ==
            <<<<this.names.http_request_method, log.method>>,
              <<this.names.url_scheme, log.scheme>>>>
            \o this.names.const_labels
        labels == HistogramLabels(this, log)
        dec == GaugeOp(this.names.http_server_active_requests,
                       active_request_labels, -1)
    IN  [gauge |-> <<dec, dec>>,
         histogram |->
            IF Excluded(this, log.mixed_pattern, log.status)
            THEN <<>>
            ELSE <<Record(this.names.http_server_request_duration, labels, duration(elapsed)),
                   Record(this.names.http_server_request_body_size, labels,
                          F64(as_f64(log.request_size), <<>>)),
                   Record(this.names.http_server_response_body_size, labels,
                          F64(as_f64(Decimal(log.response_size)), <<>>))>>]

post_request_update_metrics(this, log, elapsed) ==
    LET active_request_labels ==
            <<<<this.names.http_request_method, log.method>>,
              <<this.names.url_scheme, log.scheme>>>>
            \o this.names.const_labels
        labels == HistogramLabels(this, log)
    IN  [gauge |-> <<GaugeOp(this.names.http_server_active_requests,
                             active_request_labels, -1)>>,
         histogram |->
            IF Excluded(this, log.mixed_pattern, log.status)
            THEN <<>>
            ELSE <<Record(this.names.http_server_request_duration, labels, duration(elapsed)),
                   Record(this.names.http_server_request_body_size, labels,
                          F64(as_f64(log.request_size), <<>>)),
                   Record(this.names.http_server_response_body_size, labels,
                          F64(as_f64(Decimal(log.response_size)), <<>>))>>]

---------------------------------------------------------------------------
(* State *)

VARIABLES
    inner,      \* the ActixWebMetrics of the middleware (Arc<ActixWebMetricsInner>)
    pc,         \* per request: idle, pending (LoggerResponse alive), body
                \* (StreamLog alive), dropped (StreamLog dropped), failed
                \* (the inner service returned Err), cancelled (LoggerResponse
                \* dropped before the inner service was ready)
    call_req,   \* per request: the request MetricsMiddleware::call was given
    invoked,    \* per request: -1 before self.service.call(req); from then on
                \* the number of gauge operations made for the request when
                \* self.service.call(req) was made
    response,   \* per request: what the inner service returned, Ok(res) or Err(e)
    returned,   \* per request: what LoggerResponse::poll returned when ready
    log,        \* per request: the fields of its StreamLog
    polls,      \* per request: number of calls of StreamLog::poll_next
    eos,        \* per request: StreamLog::poll_next has returned None
    body_items, \* per request: what the inner body's poll_next returned, in order
    yielded,    \* per request: what StreamLog::poll_next returned, in order
    gauge,      \* the recorder's gauges: <<name, labels>> -> value
    gauge_ops,  \* per request: the gauge operations made for it, in order
    recorded,   \* per request: the histogram records made for it, in order
    hooks,      \* per request: number of calls of post_request_update_metrics
    counters    \* the recorder's counters: name -> value

vars == <<inner, pc, call_req, invoked, response, returned, log, polls, eos,
          body_items, yielded, gauge, gauge_ops, recorded, hooks, counters>>

Requests == 1..MaxReq

NoRequest == [method |-> <<>>, uri_scheme |-> None]
NoResponse == [status |-> 0]
\* Err(e) of the inner service
InnerErr(e) == [status |-> 0, error |-> e]

\* Poll::Ready(Ok(res.map_body(..))) and Poll::Ready(Err(e)) of LoggerResponse::poll
NotReturned == [ready |-> FALSE, ok |-> FALSE, status |-> 0, error |-> <<>>]
ReturnedOk(status) == [ready |-> TRUE, ok |-> TRUE, status |-> status, error |-> <<>>]
ReturnedErr(e) == [ready |-> TRUE, ok |-> FALSE, status |-> 0, error |-> e]

InitWith(configs) ==
    /\ inner \in configs
    /\ pc = [r \in Requests |-> "idle"]
    /\ call_req = [r \in Requests |-> NoRequest]
    /\ invoked = [r \in Requests |-> -1]
    /\ response = [r \in Requests |-> NoResponse]
    /\ returned = [r \in Requests |-> NotReturned]
    /\ log = [r \in Requests |-> NoLog]
    /\ polls = [r \in Requests |-> 0]
    /\ eos = [r \in Requests |-> FALSE]
    /\ body_items = [r \in Requests |-> <<>>]
    /\ yielded = [r \in Requests |-> <<>>]
    /\ gauge = <<>>
    /\ gauge_ops = [r \in Requests |-> <<>>]
    /\ recorded = [r \in Requests |-> <<>>]
    /\ hooks = [r \in Requests |-> 0]
    /\ counters = <<>>

Init == InitWith(LifeConfigs)

\* the recorder applies gauge operations in order
RECURSIVE ApplyGauge(_, _)
ApplyGauge(g, ops) ==
    IF ops = <<>> THEN g
    ELSE LET op == Head(ops)
             k == <<op.name, op.labels>>
             g1 == IF k \in DOMAIN g
                   THEN [g EXCEPT ![k] = @ + op.delta]
                   ELSE g @@ (k :> op.delta)
         IN  ApplyGauge(g1, Tail(ops))

\* the metrics calls fx made on behalf of request r reach the recorder
Send(r, fx) ==
    /\ gauge' = ApplyGauge(gauge, fx.gauge)
    /\ gauge_ops' = [gauge_ops EXCEPT ![r] = @ \o fx.gauge]
    /\ recorded' = [recorded EXCEPT ![r] = @ \o fx.histogram]

---------------------------------------------------------------------------
(* Operations *)

\* variant: the inner service is called before the gauge is incremented
call_InvokeFirst(r, req) ==
    /\ pc[r] = "idle"
    /\ \A q \in Requests : q < r => pc[q] # "idle"
    /\ invoked' = [invoked EXCEPT ![r] = Len(gauge_ops[r])]
    /\ Send(r, pre_request_update_metrics(inner, req))
    /\ pc' = [pc EXCEPT ![r] = "pending"]
    /\ call_req' = [call_req EXCEPT ![r] = req]
    /\ UNCHANGED <<inner, response, returned, log, polls, eos, body_items, yielded,
                   hooks, counters>>

\* MetricsMiddleware::call: requests are received in the order 1, 2, ...
\* pre_request_update_metrics(&req), then self.service.call(req)
call(r, req) ==
    /\ pc[r] = "idle"
    /\ \A q \in Requests : q < r => pc[q] # "idle"
    /\ Send(r, pre_request_update_metrics(inner, req))
    /\ invoked' = [invoked EXCEPT ![r] = Len(gauge_ops'[r])]
    /\ pc' = [pc EXCEPT ![r] = "pending"]
    /\ call_req' = [call_req EXCEPT ![r] = req]
    /\ UNCHANGED <<inner, response, returned, log, polls, eos, body_items, yielded,
                   hooks, counters>>

\* the request res.request() of the response the inner service returned
RequestOf(r, res) ==
    [method |-> IF res.rewrite.some THEN res.rewrite.val.method
                ELSE call_req[r].method,
     uri_scheme |-> IF res.rewrite.some THEN res.rewrite.val.uri_scheme
                    ELSE call_req[r].uri_scheme,
     version |-> res.version, path |-> res.path,
     match_pattern |-> res.match_pattern, match_info |-> res.match_info,
     extension |-> res.extension, content_length |-> res.content_length]

\* LoggerResponse::poll, the inner future ready with Ok(res)
poll_ok(r, res) ==
    /\ pc[r] = "pending"
    /\ log' = [log EXCEPT ![r] = NewStreamLog(RequestOf(r, res), res.status,
                                              [size |-> res.body_size])]
    /\ returned' = [returned EXCEPT ![r] = ReturnedOk(res.status)]
    /\ pc' = [pc EXCEPT ![r] = "body"]
    /\ response' = [response EXCEPT ![r] = res]
    /\ UNCHANGED <<inner, call_req, invoked, polls, eos, body_items, yielded,
                   gauge, gauge_ops, recorded, hooks, counters>>

\* variant: a failure of the inner service is observed with the labels of
\* the request as it was received, and a response size of 0
poll_err_Observed(r, e) ==
    /\ pc[r] = "pending"
    /\ pc' = [pc EXCEPT ![r] = "failed"]
    /\ response' = [response EXCEPT ![r] = InnerErr(e)]
    /\ returned' = [returned EXCEPT ![r] = ReturnedErr(e)]
    /\ gauge' = gauge
    /\ gauge_ops' = gauge_ops
    /\ recorded' = [recorded EXCEPT ![r] =
            @ \o <<Record(inner.names.http_server_response_body_size,
                          <<<<inner.names.http_request_method, call_req[r].method>>>>,
                          F64(Zero, <<>>))>>]
    /\ UNCHANGED <<inner, call_req, invoked, log, polls, eos, body_items, yielded,
                   hooks, counters>>

\* LoggerResponse::poll, the inner future ready with Err(e): the error is
\* returned and the future is finished
poll_err(r, e) ==
    /\ pc[r] = "pending"
    /\ pc' = [pc EXCEPT ![r] = "failed"]
    /\ response' = [response EXCEPT ![r] = InnerErr(e)]
    /\ returned' = [returned EXCEPT ![r] = ReturnedErr(e)]
    /\ UNCHANGED <<inner, call_req, invoked, log, polls, eos, body_items, yielded,
                   gauge, gauge_ops, recorded, hooks, counters>>

\* the caller drops the LoggerResponse before the inner future is ready;
\* LoggerResponse has no Drop
drop_future(r) ==
    /\ pc[r] = "pending"
    /\ pc' = [pc EXCEPT ![r] = "cancelled"]
    /\ UNCHANGED <<inner, call_req, invoked, response, returned, log, polls, eos,
                   body_items, yielded, gauge, gauge_ops, recorded, hooks, counters>>

\* variant: the end of the stream runs post_request_update_metrics as well
poll_next_HookAtEnd(r, item) ==
    /\ pc[r] = "body"
    /\ ~eos[r]
    /\ (polls[r] < MaxPolls \/ item.kind = "end")
    /\ polls' = [polls EXCEPT ![r] = @ + 1]
    /\ body_items' = [body_items EXCEPT ![r] = Append(@, item)]
    /\ yielded' = [yielded EXCEPT ![r] = Append(@, item)]
    /\ log' = [log EXCEPT ![r].response_size =
                    IF item.kind = "chunk" THEN @ + item.len ELSE @]
    /\ eos' = [eos EXCEPT ![r] = (item.kind = "end")]
    /\ IF item.kind = "end"
       THEN /\ \E elapsed \in LifeElapsed :
                    Send(r, post_request_update_metrics(inner, log[r], elapsed))
            /\ hooks' = [hooks EXCEPT ![r] = @ + 1]
       ELSE UNCHANGED <<gauge, gauge_ops, recorded, hooks>>
    /\ UNCHANGED <<inner, pc, call_req, invoked, response, returned, counters>>

\* variant: the size of a chunk is counted when the next item is polled, so
\* the last chunk of a body is left out
poll_next_CountLate(r, item) ==
    /\ pc[r] = "body"
    /\ ~eos[r]
    /\ (polls[r] < MaxPolls \/ item.kind = "end")
    /\ polls' = [polls EXCEPT ![r] = @ + 1]
    /\ body_items' = [body_items EXCEPT ![r] = Append(@, item)]
    /\ yielded' = [yielded EXCEPT ![r] = Append(@, item)]
    /\ log' = [log EXCEPT ![r].response_size =
                    IF item.kind = "chunk" /\ body_items[r] # <<>>
                    THEN @ + body_items[r][Len(body_items[r])].len
                    ELSE @]
    /\ eos' = [eos EXCEPT ![r] = (item.kind = "end")]
    /\ UNCHANGED <<inner, pc, call_req, invoked, response, returned,
                   gauge, gauge_ops, recorded, hooks, counters>>

\* variant: an error of the inner body ends the wrapped body
poll_next_ErrEnds(r, item) ==
    /\ pc[r] = "body"
    /\ ~eos[r]
    /\ (polls[r] < MaxPolls \/ item.kind = "end")
    /\ polls' = [polls EXCEPT ![r] = @ + 1]
    /\ body_items' = [body_items EXCEPT ![r] = Append(@, item)]
    /\ yielded' = [yielded EXCEPT ![r] =
                        Append(@, IF item.kind = "err" THEN Ready("end", 0) ELSE item)]
    /\ log' = [log EXCEPT ![r].response_size =
                    IF item.kind = "chunk" THEN @ + item.len ELSE @]
    /\ eos' = [eos EXCEPT ![r] = (item.kind \in {"end", "err"})]
    /\ UNCHANGED <<inner, pc, call_req, invoked, response, returned,
                   gauge, gauge_ops, recorded, hooks, counters>>

\* variant: an error of the inner body runs the post-request update
poll_next_HookAtErr(r, item) ==
    /\ pc[r] = "body"
    /\ ~eos[r]
    /\ (polls[r] < MaxPolls \/ item.kind = "end")
    /\ polls' = [polls EXCEPT ![r] = @ + 1]
    /\ body_items' = [body_items EXCEPT ![r] = Append(@, item)]
    /\ yielded' = [yielded EXCEPT ![r] = Append(@, item)]
    /\ log' = [log EXCEPT ![r].response_size =
                    IF item.kind = "chunk" THEN @ + item.len ELSE @]
    /\ eos' = [eos EXCEPT ![r] = (item.kind = "end")]
    /\ IF item.kind = "err"
       THEN /\ \E elapsed \in LifeElapsed :
                    Send(r, post_request_update_metrics(inner, log[r], elapsed))
            /\ hooks' = [hooks EXCEPT ![r] = @ + 1]
       ELSE UNCHANGED <<gauge, gauge_ops, recorded, hooks>>
    /\ UNCHANGED <<inner, pc, call_req, invoked, response, returned, counters>>

\* variant: an error of the inner body sets the counted size back to 0
poll_next_ErrResets(r, item) ==
    /\ pc[r] = "body"
    /\ ~eos[r]
    /\ (polls[r] < MaxPolls \/ item.kind = "end")
    /\ polls' = [polls EXCEPT ![r] = @ + 1]
    /\ body_items' = [body_items EXCEPT ![r] = Append(@, item)]
    /\ yielded' = [yielded EXCEPT ![r] = Append(@, item)]
    /\ log' = [log EXCEPT ![r].response_size =
                    IF item.kind = "chunk" THEN @ + item.len
                    ELSE IF item.kind = "err" THEN 0 ELSE @]
    /\ eos' = [eos EXCEPT ![r] = (item.kind = "end")]
    /\ UNCHANGED <<inner, pc, call_req, invoked, response, returned,
                   gauge, gauge_ops, recorded, hooks, counters>>

\* variant: the counted size is one accumulator shared by all live bodies
poll_next_Shared(r, item) ==
    /\ pc[r] = "body"
    /\ ~eos[r]
    /\ (polls[r] < MaxPolls \/ item.kind = "end")
    /\ polls' = [polls EXCEPT ![r] = @ + 1]
    /\ body_items' = [body_items EXCEPT ![r] = Append(@, item)]
    /\ yielded' = [yielded EXCEPT ![r] = Append(@, item)]
    /\ log' = [q \in Requests |->
                    IF pc[q] = "body" /\ item.kind = "chunk"
                    THEN [log[q] EXCEPT !.response_size = @ + item.len]
                    ELSE log[q]]
    /\ eos' = [eos EXCEPT ![r] = (item.kind = "end")]
    /\ UNCHANGED <<inner, pc, call_req, invoked, response, returned,
                   gauge, gauge_ops, recorded, hooks, counters>>

\* StreamLog::poll_next, the inner body's poll_next returning item: Pending
\* is returned at once (ready!), a chunk is counted and returned, an error
\* and the end of the stream are returned
poll_next(r, item) ==
    /\ pc[r] = "body"
    /\ ~eos[r]
    /\ (polls[r] < MaxPolls \/ item.kind = "end")
    /\ polls' = [polls EXCEPT ![r] = @ + 1]
    /\ body_items' = [body_items EXCEPT ![r] = Append(@, item)]
    /\ yielded' = [yielded EXCEPT ![r] = Append(@, item)]
    /\ log' = [log EXCEPT ![r].response_size =
                    IF item.kind = "chunk" THEN @ + item.len ELSE @]
    /\ eos' = [eos EXCEPT ![r] = (item.kind = "end")]
    /\ UNCHANGED <<inner, pc, call_req, invoked, response, returned,
                   gauge, gauge_ops, recorded, hooks, counters>>

\* variant: a body that was read to its end is dropped without the update
drop_SkipAfterEnd(r, elapsed) ==
    /\ pc[r] = "body"
    /\ pc' = [pc EXCEPT ![r] = "dropped"]
    /\ IF eos[r]
       THEN UNCHANGED <<gauge, gauge_ops, recorded, hooks>>
       ELSE /\ Send(r, post_request_update_metrics(inner, log[r], elapsed))
            /\ hooks' = [hooks EXCEPT ![r] = @ + 1]
    /\ UNCHANGED <<inner, call_req, invoked, response, returned, log, polls, eos,
                   body_items, yielded, counters>>

\* variant: a body of declared size is recorded with that size
drop_DeclaredSize(r, elapsed) ==
    /\ pc[r] = "body"
    /\ pc' = [pc EXCEPT ![r] = "dropped"]
    /\ Send(r, post_request_update_metrics(inner,
                [log[r] EXCEPT !.response_size =
                    IF size(log[r])[1] = "Sized" THEN size(log[r])[2] ELSE @],
                elapsed))
    /\ hooks' = [hooks EXCEPT ![r] = @ + 1]
    /\ UNCHANGED <<inner, call_req, invoked, response, returned, log, polls, eos,
                   body_items, yielded, counters>>

\* PinnedDrop for StreamLog: the response body is dropped, read or not, the
\* time elapsed since MetricsMiddleware::call elapsed
drop(r, elapsed) ==
    /\ pc[r] = "body"
    /\ pc' = [pc EXCEPT ![r] = "dropped"]
    /\ Send(r, post_request_update_metrics(inner, log[r], elapsed))
    /\ hooks' = [hooks EXCEPT ![r] = @ + 1]
    /\ UNCHANGED <<inner, call_req, invoked, response, returned, log, polls, eos,
                   body_items, yielded, counters>>

\* the application's counter!(name).increment(1)
counter_increment(name) ==
    /\ (IF name \in DOMAIN counters THEN counters[name] ELSE 0) < MaxCount
    /\ counters' = IF name \in DOMAIN counters
                   THEN [counters EXCEPT ![name] = @ + 1]
                   ELSE counters @@ (name :> 1)
    /\ UNCHANGED <<inner, pc, call_req, invoked, response, returned, log, polls, eos,
                   body_items, yielded, gauge, gauge_ops, recorded, hooks>>

Next ==
    \E r \in Requests :
        \/ \E req \in LifeCallRequests : call(r, req)
        \/ \E res \in LifeInnerResults : poll_ok(r, res)
        \/ \E e \in LifeErrors : poll_err(r, e)
        \/ drop_future(r)
        \/ \E item \in LifeBodyItems : poll_next(r, item)
        \/ \E elapsed \in LifeElapsed : drop(r, elapsed)

Spec == Init /\ [][Next]_vars

\* requests in flight together, the same steps, under ActixWebMetricsBuilder's
\* default configuration
InitTrack == InitWith({Inner({}, {}, {}, Some(UNKNOWN))})

SpecTrack == InitTrack /\ [][Next]_vars

\* one request at a time, every routing result and every configuration
InitOne == InitWith(Configs)

NextOne ==
    \/ \E req \in CallRequests : call(1, req)
    \/ \E res \in InnerResults : poll_ok(1, res)
    \/ \E e \in Errors : poll_err(1, e)
    \/ drop_future(1)
    \/ \E item \in LifeBodyItems : poll_next(1, item)
    \/ \E elapsed \in LifeElapsed : drop(1, elapsed)

SpecOne == InitOne /\ [][NextOne]_vars

\* one request to the route /h of an application that records a counter of
\* its own: every header, declared size and body, ActixWebMetricsBuilder's
\* default configuration
InitApp == InitWith({Inner({}, {}, {}, Some(UNKNOWN))})

NextApp ==
    \/ call(1, [method |-> GET, uri_scheme |-> None])
    \/ \E res \in AppInnerResults : poll_ok(1, res)
    \/ \E e \in Errors : poll_err(1, e)
    \/ drop_future(1)
    \/ \E item \in BodyItems \cup {Pending} : poll_next(1, item)
    \/ \E elapsed \in LifeElapsed : drop(1, elapsed)
    \/ \E name \in UserCounters : counter_increment(name)

SpecApp == InitApp /\ [][NextApp]_vars

\* one request under configurations with constant labels, the map iterated
\* in any order by build, with a namespace and with other names
InitConst == InitWith(ConstLabelConfigs \cup NamedConfigs)

NextConst ==
    \/ \E req \in CallRequests : call(1, req)
    \/ \E res \in LifeInnerResults : poll_ok(1, res)
    \/ \E e \in LifeErrors : poll_err(1, e)
    \/ drop_future(1)
    \/ \E item \in LifeBodyItems : poll_next(1, item)
    \/ \E elapsed \in Elapsed : drop(1, elapsed)

SpecConst == InitConst /\ [][NextConst]_vars

\* one request, its content-length header as received and as the inner
\* service leaves it, under every HTTP version
InitHead == InitWith(LifeConfigs)

NextHead ==
    \/ \E req \in HeadCallRequests : call(1, req)
    \/ \E res \in HeadInnerResults : poll_ok(1, res)
    \/ \E e \in LifeErrors : poll_err(1, e)
    \/ drop_future(1)
    \/ \E item \in LifeBodyItems : poll_next(1, item)
    \/ \E elapsed \in Elapsed : drop(1, elapsed)

SpecHead == InitHead /\ [][NextHead]_vars

---------------------------------------------------------------------------
(* Properties *)

Incs(r) == Cardinality({i \in DOMAIN gauge_ops[r] : gauge_ops[r][i].delta = 1})
Decs(r) == Cardinality({i \in DOMAIN gauge_ops[r] : gauge_ops[r][i].delta = -1})

RECURSIVE SumOver(_, _)
SumOver(f(_), S) ==
    IF S = {} THEN 0
    ELSE LET x == CHOOSE y \in S : TRUE IN f(x) + SumOver(f, S \ {x})

\* histogram records were made for request r
Emitted(r) == recorded[r] # <<>>
\* the route label on the records of request r
RouteLabel(r) == recorded[r][1].labels[1][2]

GaugeAtBaseline == \A k \in DOMAIN gauge : gauge[k] = 0

\* C1: once every request received has finished, with its response body
\* dropped (read or not) or with an error of the inner service before any
\* response, the gauge was incremented as often as decremented and is back at
\* its baseline.
C1_GaugeBalancedWhenAllFinished ==
    (\A r \in Requests : pc[r] \in {"idle", "dropped", "failed"})
        => /\ SumOver(Incs, Requests) = SumOver(Decs, Requests)
           /\ GaugeAtBaseline

\* C2: the increment of a request is matched by its decrement also under
\* cancellation: when the response future was dropped before the inner
\* service produced a response, or the body was dropped mid-stream, the
\* decrement has happened.
C2_DecrementUnderCancellation ==
    \A r \in Requests :
        pc[r] \in {"cancelled", "dropped"} => Incs(r) = 1 /\ Decs(r) = 1

\* C3: for a request whose inner service produced a response, the post-request
\* update runs exactly once: not while the body is alive, once when it has
\* been dropped, whether it was read to the end, in part, or not at all.
C3_HookExactlyOnce ==
    \A r \in Requests :
        /\ hooks[r] <= 1
        /\ pc[r] = "body" => hooks[r] = 0
        /\ pc[r] = "dropped" => hooks[r] = 1 /\ Decs(r) = 1
        /\ pc[r] \notin {"body", "dropped"} => hooks[r] = 0

C3_Witness ==
    \E r, q \in Requests :
        /\ pc[r] = "dropped" /\ eos[r] /\ hooks[r] = 1
        /\ pc[q] = "dropped" /\ polls[q] = 0 /\ hooks[q] = 1

\* C4 as claimed: once the wrapped body has reported the end of the stream,
\* the gauge decrement and the observations have happened.
C4_Original_DoneAtEndOfStream ==
    \A r \in Requests : eos[r] => hooks[r] = 1 /\ Decs(r) = 1

\* C4 as amended: the end of the stream triggers nothing; after it, and until
\* the body is dropped, neither the decrement nor an observation has happened,
\* and the drop of the body makes them happen once.
C4_DoneAtDropAfterEndOfStream ==
    \A r \in Requests :
        eos[r] =>
            /\ pc[r] = "body" => hooks[r] = 0 /\ Decs(r) = 0 /\ ~Emitted(r)
            /\ pc[r] = "dropped" => hooks[r] = 1 /\ Decs(r) = 1

C4_Witness ==
    \E r \in Requests :
        pc[r] = "dropped" /\ eos[r] /\ log[r].response_size > 0 /\ hooks[r] = 1

\* shouldRecord(L, S) of the exclusion rules
ShouldRecord(L, S) ==
    /\ L \notin inner.exclude
    /\ ~\E lit \in inner.exclude_regex : Contains(L, lit)
    /\ S \notin inner.exclude_status

\* C5 as claimed: observations are emitted for a completed request if and only
\* if shouldRecord(L, S) holds of its final route label L (after the 404/405
\* correction and the masking) and its status S.
C5_Original_RecordedIffFinalLabelAllowed ==
    \A r \in Requests :
        pc[r] = "dropped" =>
            (Emitted(r) <=> ShouldRecord(FinalPattern(inner, log[r]), log[r].status))

\* C5 as amended: observations are emitted for a completed request if and only
\* if shouldRecord(L, S) holds of the label L before the 404/405 correction
\* and the masking (the mixed pattern, or the raw path of an unmatched
\* request) and its status S.
C5_RecordedIffMixedPatternAllowed ==
    \A r \in Requests :
        pc[r] = "dropped" =>
            (Emitted(r) <=> ShouldRecord(mixed_pattern(RequestOf(r, response[r])),
                                         response[r].status))

C5_Witness ==
    \E r \in Requests :
        /\ pc[r] = "dropped" /\ ~Emitted(r)
        /\ log[r].mixed_pattern \in inner.exclude
        /\ FinalPattern(inner, log[r]) \notin inner.exclude
        /\ log[r].status \notin inner.exclude_status

\* C6: a request that matches an exclusion rule (exact path, pattern or
\* status) has its gauge incremented at entry and decremented when its body is
\* dropped, as any other request.
C6_GaugeNotExcluded ==
    \A r \in Requests :
        /\ pc[r] = "body" => Incs(r) = 1 /\ Decs(r) = 0
        /\ pc[r] = "dropped" => Incs(r) = 1 /\ Decs(r) = 1

C6_Witness ==
    \E r \in Requests :
        /\ pc[r] = "dropped" /\ ~Emitted(r)
        /\ ~ShouldRecord(log[r].mixed_pattern, log[r].status)
        /\ Incs(r) = 1 /\ Decs(r) = 1

\* the matched template with the allow-listed bound parameters replaced by
\* their values and every other placeholder left as it is
RECURSIVE CloseAt(_, _)
CloseAt(t, i) ==
    IF i > Len(t) THEN Len(t)
    ELSE IF t[i] = "}" THEN i
    ELSE CloseAt(t, i + 1)

RECURSIVE Substituted(_, _, _, _)
Substituted(t, info, keep, i) ==
    IF i > Len(t) THEN <<>>
    ELSE IF t[i] # "{" THEN <<t[i]>> \o Substituted(t, info, keep, i + 1)
    ELSE LET j == CloseAt(t, i)
             group == SubSeq(t, i + 1, j - 1)
             c == ColonAt(group, 1)
             name == IF c = 0 THEN group ELSE SubSeq(group, 1, c - 1)
         IN  (IF name \in keep /\ name \in DOMAIN info
              THEN info[name]
              ELSE SubSeq(t, i, j))
             \o Substituted(t, info, keep, j + 1)

KeepOf(res) == IF res.extension.some THEN res.extension.val ELSE {}

\* C7: for a request that matched a route and whose status is neither 404 nor
\* 405, the route label is the matched template with every bound parameter of
\* the allow-list replaced by its value and every other parameter left as
\* its placeholder.
C7_MixedLabel ==
    \A r \in Requests :
        /\ pc[r] = "dropped" /\ Emitted(r)
        /\ response[r].match_pattern.some
        /\ response[r].status \notin {NotFound, MethodNotAllowed}
        => RouteLabel(r) = Substituted(response[r].match_pattern.val,
                                       response[r].match_info,
                                       KeepOf(response[r]), 1)

\* C8: for a request that matched a route without a cardinality override, the
\* route label is the unmodified matched template.
C8_TemplateWithoutOverride ==
    \A r \in Requests :
        /\ pc[r] = "dropped" /\ Emitted(r)
        /\ response[r].match_pattern.some
        /\ ~response[r].extension.some
        => RouteLabel(r) = response[r].match_pattern.val

\* C9: for a request that matched no route, the recorded route label is the
\* mask when one is configured, and the raw request path when masking is
\* disabled.
C9_UnmatchedLabel ==
    \A r \in Requests :
        /\ pc[r] = "dropped" /\ Emitted(r)
        /\ ~response[r].match_pattern.some
        => RouteLabel(r) = IF inner.unmatched_patterns_mask.some
                           THEN inner.unmatched_patterns_mask.val
                           ELSE response[r].path

C9_Witness ==
    \E r \in Requests :
        /\ pc[r] = "dropped" /\ Emitted(r)
        /\ ~response[r].match_pattern.some
        /\ response[r].path = P_x
        /\ inner.unmatched_patterns_mask = Some(MASK_M)
        /\ RouteLabel(r) = MASK_M

\* C10: for a request that matched a route and whose status is 404 or 405, the
\* emitted route label is the unmodified matched template, not the mixed
\* pattern with the values of allow-listed parameters.
C10_FallbackOn404And405 ==
    \A r \in Requests :
        /\ pc[r] = "dropped" /\ Emitted(r)
        /\ response[r].match_pattern.some
        /\ response[r].status \in {NotFound, MethodNotAllowed}
        => RouteLabel(r) = response[r].match_pattern.val

C10_Witness ==
    \E r \in Requests :
        /\ pc[r] = "dropped" /\ Emitted(r)
        /\ response[r].match_pattern = Some(T_rab)
        /\ response[r].extension = Some({K_a})
        /\ response[r].status = MethodNotAllowed
        /\ log[r].mixed_pattern # T_rab
        /\ RouteLabel(r) = T_rab

\* C11: a request that matched a route is never labelled with the mask,
\* whatever its status: its label is the matched template when the status is
\* 404 or 405 and the mixed pattern otherwise, also when a mask is configured.
C11_MatchedNeverMasked ==
    \A r \in Requests :
        /\ pc[r] = "dropped" /\ Emitted(r)
        /\ response[r].match_pattern.some
        => /\ inner.unmatched_patterns_mask.some
                => RouteLabel(r) # inner.unmatched_patterns_mask.val
           /\ RouteLabel(r) =
                IF response[r].status \in {NotFound, MethodNotAllowed}
                THEN response[r].match_pattern.val
                ELSE log[r].mixed_pattern

C11_Witness ==
    \E r \in Requests :
        /\ pc[r] = "dropped" /\ Emitted(r)
        /\ response[r].match_pattern = Some(T_rab)
        /\ response[r].status = NotFound
        /\ inner.unmatched_patterns_mask = Some(UNKNOWN)
        /\ RouteLabel(r) = T_rab

\* sum of the lengths of the chunks among items
RECURSIVE ChunkSum(_)
ChunkSum(items) ==
    IF items = <<>> THEN 0
    ELSE (IF Head(items).kind = "chunk" THEN Head(items).len ELSE 0)
         + ChunkSum(Tail(items))

NumChunks(items) == Cardinality({i \in DOMAIN items : items[i].kind = "chunk"})

\* the integer of a numeral
RECURSIVE NatOf(_)
NatOf(n) ==
    IF n = <<>> THEN 0
    ELSE NatOf(SubSeq(n, 1, Len(n) - 1)) * 10 + DigitVal(n[Len(n)])

\* the response size recorded for request r, a whole number of bytes
RecordedResponseSize(r) ==
    LET rec == CHOOSE x \in {recorded[r][i] : i \in DOMAIN recorded[r]} :
                   x.name = inner.names.http_server_response_body_size
    IN  IF rec.value[2] = <<>> THEN NatOf(rec.value[1]) ELSE -1

\* C12: once the wrapped body has been read to the end of its stream, the
\* response size counted, and recorded when the body is dropped, is the sum
\* of the lengths of all chunks the inner body returned: 0 for an empty body.
C12_ResponseSizeIsSumOfChunks ==
    \A r \in Requests :
        eos[r] =>
            /\ log[r].response_size = ChunkSum(body_items[r])
            /\ pc[r] = "dropped" /\ Emitted(r)
                => RecordedResponseSize(r) = ChunkSum(body_items[r])

C12_Witness ==
    \E r \in Requests :
        /\ pc[r] = "dropped" /\ eos[r] /\ Emitted(r)
        /\ NumChunks(body_items[r]) = 2
        /\ ChunkSum(body_items[r]) = 3
        /\ RecordedResponseSize(r) = 3

\* C13: the response the middleware returns has the status of the inner
\* service's response, its body declares the size the inner body declares,
\* and the items the wrapped body returns (chunks, errors, the end of the
\* stream, Pending) are the items the inner body returns, in the same order.
C13_ResponseUnchanged ==
    \A r \in Requests :
        /\ yielded[r] = body_items[r]
        /\ pc[r] \in {"body", "dropped"} =>
                /\ returned[r].ok
                /\ returned[r].status = response[r].status
                /\ size(log[r]) = response[r].body_size

C13_Witness ==
    \E r \in Requests :
        /\ pc[r] = "dropped"
        /\ response[r].status = 500 /\ returned[r].status = 500
        /\ response[r].body_size = BodySize_Sized(3)
        /\ size(log[r]) = BodySize_Sized(3)
        /\ body_items[r] = <<Pending, Ready("chunk", 2), Ready("end", 0)>>
        /\ yielded[r] = <<Pending, Ready("chunk", 2), Ready("end", 0)>>

\* the unsigned integers up to usize::MAX a header value is a numeral of,
\* each by its numeral without leading zeros: at most one
NumeralsOf(header) ==
    IF ~header.some THEN {}
    ELSE LET v == header.val
             t == IF Len(v) > 0 /\ v[1] = "+" THEN Tail(v) ELSE v
         IN  IF /\ Len(t) > 0
                /\ \A i \in DOMAIN t : \E d \in DOMAIN DigitChars : t[i] = DigitChars[d]
                /\ \/ Len(StripZeros(t)) < Len(USIZE_MAX)
                   \/ /\ Len(StripZeros(t)) = Len(USIZE_MAX)
                      /\ ~DigitsLess(USIZE_MAX, StripZeros(t))
             THEN {StripZeros(t)}
             ELSE {}

\* the request size recorded for request r, a whole number of bytes, by its
\* numeral
RecordedRequestSize(r) ==
    LET rec == CHOOSE x \in {recorded[r][i] : i \in DOMAIN recorded[r]} :
                   x.name = inner.names.http_server_request_body_size
    IN  IF rec.value[2] = <<>> THEN rec.value[1] ELSE <<>>

\* C14: the request size recorded is the unsigned integer the content-length
\* header is a numeral of, and 0 when the header is absent, is not text or
\* is not such a numeral; whatever the header, the response is returned and,
\* under a configuration that excludes nothing, its observations are made.
C14_RequestSizeFromContentLength ==
    \A r \in Requests :
        pc[r] \in {"body", "dropped"} =>
            LET ns == NumeralsOf(response[r].content_length)
                expected == IF ns = {} THEN Zero ELSE CHOOSE n \in ns : TRUE
            IN  /\ returned[r].ok
                /\ log[r].request_size = expected
                /\ pc[r] = "dropped" =>
                        /\ Emitted(r)
                        /\ RecordedRequestSize(r) = as_f64(expected)
                        /\ NumLess(expected, F64_EXACT) =>
                                RecordedRequestSize(r) = expected

C14_Witness ==
    \E r \in Requests :
        /\ pc[r] = "dropped" /\ Emitted(r) /\ returned[r].ok
        /\ response[r].content_length = Some(<<"1", "0xFF">>)
        /\ RecordedRequestSize(r) = Zero

\* what the route label of request r is resolved from, the mask apart
LabelInputs(r) ==
    <<response[r].path, response[r].match_pattern, response[r].match_info,
      response[r].extension, response[r].status>>

\* two requests resolved from the same inputs carry the same route label
SameInputsSameLabel ==
    \A r, q \in Requests :
        /\ pc[r] = "dropped" /\ Emitted(r)
        /\ pc[q] = "dropped" /\ Emitted(q)
        /\ LabelInputs(r) = LabelInputs(q)
        => RouteLabel(r) = RouteLabel(q)

\* a step leaves the configuration as it is and changes the StreamLog of at
\* most the request it is a step of
ResolutionFrame ==
    /\ inner' = inner
    /\ \A r, q \in Requests :
            pc'[r] # pc[r] /\ q # r => log'[q] = log[q]

\* C15: the route label is a function of the raw path, the matched template,
\* the bound parameters, the allow-list, the status and the mask: two requests
\* that agree on them get the same label, whatever else differs (method,
\* scheme), and resolving a label changes neither the configuration nor the
\* StreamLog of another request.
C15_LabelResolutionPure == []SameInputsSameLabel /\ [][ResolutionFrame]_vars

C15_Witness ==
    \E r, q \in Requests :
        /\ r # q
        /\ pc[r] = "dropped" /\ Emitted(r)
        /\ pc[q] = "dropped" /\ Emitted(q)
        /\ LabelInputs(r) = LabelInputs(q)
        /\ response[r].status = NotFound
        /\ log[r].mixed_pattern # log[r].fallback_pattern
        /\ call_req[r].method # call_req[q].method
        /\ RouteLabel(r) = RouteLabel(q)

\* the metrics of the recorder that the middleware has created or changed
\* are its gauge and its three histograms
MiddlewareMetricsOnly ==
    /\ \A k \in DOMAIN gauge : k[1] = inner.names.http_server_active_requests
    /\ \A r \in Requests : \A i \in DOMAIN recorded[r] :
            recorded[r][i].name \in {inner.names.http_server_request_duration,
                                     inner.names.http_server_request_body_size,
                                     inner.names.http_server_response_body_size}
    /\ DOMAIN counters \subseteq UserCounters

\* a step that records a counter of the application changes no metric of the
\* middleware, and a step of the middleware changes no counter
CustomMetricsFrame ==
    \/ counters' = counters
    \/ UNCHANGED <<gauge, gauge_ops, recorded, pc, log, hooks>>

\* C16: recording a custom counter leaves the gauge and the histogram records
\* of the middleware as they are, and handling a request creates or changes
\* only the active-requests gauge and the three histograms, never a counter
\* of the application.
C16_CustomMetricsApart == []MiddlewareMetricsOnly /\ [][CustomMetricsFrame]_vars

C16_Witness ==
    /\ "counter" \in DOMAIN counters /\ counters["counter"] = 2
    /\ pc[1] = "dropped" /\ Emitted(1) /\ Len(recorded[1]) = 3
    /\ Incs(1) = 1 /\ Decs(1) = 1

\* C17: when the inner service fails with an error before any response, no
\* duration, request-size or response-size record is made for the request,
\* and what the middleware returns is that error.
C17_InnerErrorNotObserved ==
    \A r \in Requests :
        pc[r] = "failed" =>
            /\ recorded[r] = <<>>
            /\ hooks[r] = 0
            /\ returned[r].ready /\ ~returned[r].ok
            /\ returned[r].error = response[r].error

C17_Witness ==
    \E r \in Requests :
        /\ pc[r] = "failed"
        /\ response[r] = InnerErr(<<"ErrorBadRequest">>)
        /\ returned[r] = ReturnedErr(<<"ErrorBadRequest">>)
        /\ ~Emitted(r)

\* the value of one label series of the gauge, and the gauge over all its
\* label series
GaugeValue(k) == gauge[k]
GaugeTotal == SumOver(GaugeValue, DOMAIN gauge)

\* requests counted at entry whose post-request update has not run
InFlight == {r \in Requests : Incs(r) = 1 /\ hooks[r] = 0}

\* C18: in every reachable state, with requests interleaved in any way, the
\* active-requests gauge, taken over all its label series, is not below its
\* baseline and is the number of requests that were counted at entry and
\* whose post-request update has not run; the gauge operations of a request
\* are an increment, followed or not by one decrement.
C18_GaugeCountsInFlight ==
    /\ GaugeTotal >= 0
    /\ GaugeTotal = Cardinality(InFlight)
    /\ \A r \in Requests :
            /\ Len(gauge_ops[r]) <= 2
            /\ Len(gauge_ops[r]) >= 1 => gauge_ops[r][1].delta = 1
            /\ Len(gauge_ops[r]) = 2 => gauge_ops[r][2].delta = -1 /\ hooks[r] = 1
            /\ pc[r] = "idle" <=> gauge_ops[r] = <<>>

C18_Witness ==
    \E r, q \in Requests :
        /\ pc[r] = "dropped" /\ hooks[r] = 1
        /\ pc[q] = "body" /\ polls[q] > 0
        /\ InFlight = {q}
        /\ GaugeTotal = 1

\* C19: the labels (method, scheme, constant labels) of a request's gauge
\* decrement are the labels of its increment, so that every label series of
\* the gauge is back at its baseline when the request is done, also when the
\* request's method or URI was changed below the middleware.
C19_DecrementLabelsOfIncrement ==
    \A r \in Requests :
        pc[r] = "dropped" =>
            /\ gauge_ops[r][2].labels = gauge_ops[r][1].labels
            /\ GaugeAtBaseline

\* C20: the gauge is incremented for a request when the middleware receives
\* it and before the inner service is called for it: when the inner service
\* was called the increment had been made, and a request not yet received
\* has neither been counted nor handed to the inner service.
C20_IncrementBeforeInnerService ==
    \A r \in Requests :
        /\ pc[r] = "idle" => invoked[r] = -1 /\ gauge_ops[r] = <<>>
        /\ pc[r] # "idle" =>
                /\ invoked[r] = 1
                /\ gauge_ops[r][1].delta = 1
        /\ response[r] # NoResponse => invoked[r] = 1

C20_Witness ==
    \E r \in Requests :
        /\ pc[r] = "pending" /\ response[r] = NoResponse
        /\ invoked[r] = 1 /\ Incs(r) = 1 /\ Decs(r) = 0
        /\ GaugeTotal >= 1

\* C21: a request to a path of the exact exclusion set, a request whose
\* resolved route label matches an exclusion pattern, and a request whose
\* status is an excluded status each have no duration, request-size or
\* response-size record; a request that no rule matches, whether by its
\* path, its resolved label or its final label, has its records.
C21_ExcludedNotObserved ==
    \A r \in Requests :
        pc[r] = "dropped" =>
            /\ response[r].path \in inner.exclude => ~Emitted(r)
            /\ is_match(inner.exclude_regex, log[r].mixed_pattern) => ~Emitted(r)
            /\ response[r].status \in inner.exclude_status => ~Emitted(r)
            /\ (/\ ShouldRecord(response[r].path, response[r].status)
                /\ ShouldRecord(log[r].mixed_pattern, response[r].status)
                /\ ShouldRecord(FinalPattern(inner, log[r]), response[r].status))
                => Emitted(r)

\* C22: for a request that matched a route and whose status is neither 404
\* nor 405, another 4xx or a 5xx included, the route label is the mixed
\* pattern LoggerResponse::poll built and not the fallback pattern.
C22_NoFallbackOnOtherStatuses ==
    \A r \in Requests :
        /\ pc[r] = "dropped" /\ Emitted(r)
        /\ response[r].match_pattern.some
        /\ response[r].status \notin {NotFound, MethodNotAllowed}
        => /\ RouteLabel(r) = log[r].mixed_pattern
           /\ log[r].mixed_pattern # log[r].fallback_pattern
                => RouteLabel(r) # response[r].match_pattern.val

C22_Witness ==
    \E r \in Requests :
        /\ pc[r] = "dropped" /\ Emitted(r)
        /\ response[r].match_pattern = Some(T_rab)
        /\ response[r].extension = Some({K_a})
        /\ response[r].status = 400
        /\ RouteLabel(r) = <<"/", "r", "/", "f", "/", "{", "b", "}">>

\* strfmt fails on the matched template of request r
StrfmtFails(r) ==
    /\ response[r].match_pattern.some
    /\ ~strfmt(response[r].match_pattern.val,
               ParamsOf(response[r].match_info, KeepOf(response[r]))).ok

\* C23: when the mixed label cannot be built from the matched template, the
\* label is the unmodified template and the request goes on as any other:
\* the response is returned, the gauge is decremented when the body is
\* dropped, and the records are made unless an exclusion rule applies.
C23_FallbackWhenFormatFails ==
    \A r \in Requests :
        pc[r] \in {"body", "dropped"} /\ StrfmtFails(r) =>
            /\ returned[r].ok /\ returned[r].status = response[r].status
            /\ log[r].mixed_pattern = response[r].match_pattern.val
            /\ Incs(r) = 1
            /\ pc[r] = "dropped" =>
                    /\ Decs(r) = 1 /\ hooks[r] = 1
                    /\ Emitted(r) <=> ShouldRecord(response[r].match_pattern.val,
                                                   response[r].status)
                    /\ Emitted(r) => RouteLabel(r) = response[r].match_pattern.val

C23_Witness ==
    \E r \in Requests :
        /\ pc[r] = "dropped" /\ StrfmtFails(r) /\ Emitted(r)
        /\ response[r].match_pattern = Some(T_ui)
        /\ response[r].extension = Some({K_i})
        /\ response[r].path = P_u7
        /\ RouteLabel(r) = T_ui
        /\ Decs(r) = 1

\* the step is a poll of request r's body that returned an item of this kind
PolledStep(r, kind) ==
    /\ Len(body_items'[r]) = Len(body_items[r]) + 1
    /\ body_items'[r][Len(body_items'[r])].kind = kind

HasKind(items, kind) == \E i \in DOMAIN items : items[i].kind = kind

\* an error of the inner body is returned as it is, and the step changes
\* neither the StreamLog nor anything of the recorder
ErrorStepFrame ==
    \A r \in Requests :
        PolledStep(r, "err") =>
            /\ yielded'[r] = Append(yielded[r], Ready("err", 0))
            /\ log'[r] = log[r]
            /\ pc'[r] = "body"
            /\ UNCHANGED <<gauge, gauge_ops, recorded, hooks>>

\* a body that returned an error and was dropped had its post-request update
ErrorThenDropObserved ==
    \A r \in Requests :
        pc[r] = "dropped" /\ HasKind(body_items[r], "err") =>
            /\ hooks[r] = 1 /\ Decs(r) = 1
            /\ Emitted(r) <=> ShouldRecord(log[r].mixed_pattern, log[r].status)
            /\ Emitted(r) => RecordedResponseSize(r) = ChunkSum(body_items[r])

\* C24: an error of the inner body is passed through unchanged, leaves the
\* counted response size as it is and makes no gauge operation or record;
\* the drop of the body afterwards decrements the gauge and, the request not
\* being excluded, records the bytes counted.
C24_ChunkErrorPassedThrough == []ErrorThenDropObserved /\ [][ErrorStepFrame]_vars

C24_Witness ==
    \E r \in Requests :
        /\ pc[r] = "dropped" /\ Emitted(r)
        /\ yielded[r] = <<Ready("chunk", 2), Ready("err", 0)>>
        /\ RecordedResponseSize(r) = 2
        /\ Decs(r) = 1

\* every step of a live body leaves its counted size as it is, unless the
\* step is a poll that returned a chunk, which adds the chunk's length
AccumulatorStep ==
    \A r \in Requests :
        pc[r] = "body" /\ pc'[r] \in {"body", "dropped"} =>
            /\ log'[r].response_size >= log[r].response_size
            /\ log'[r].response_size =
                    IF PolledStep(r, "chunk")
                    THEN log[r].response_size
                         + body_items'[r][Len(body_items'[r])].len
                    ELSE log[r].response_size

AccumulatorStartsAtZero ==
    \A r \in Requests :
        pc[r] = "body" /\ body_items[r] = <<>> => log[r].response_size = 0

\* C25: the counted response size starts at 0, never decreases while the
\* body lives, and changes only when a chunk is returned, by the length of
\* that chunk; Pending, errors and the end of the stream leave it unchanged.
C25_AccumulatorMonotone == []AccumulatorStartsAtZero /\ [][AccumulatorStep]_vars

C25_Witness ==
    \E r \in Requests :
        /\ pc[r] = "body"
        /\ body_items[r] = <<Ready("chunk", 2), Pending, Ready("end", 0)>>
        /\ log[r].response_size = 2

\* C26: when the body is dropped before the end of its stream, the response
\* size recorded (the request not being excluded) is the sum of the lengths
\* of the chunks returned before the drop, 0 when the body was never polled,
\* whatever size the body declares.
C26_PartialBodySize ==
    \A r \in Requests :
        pc[r] = "dropped" /\ ~eos[r] /\ Emitted(r) =>
            /\ RecordedResponseSize(r) = ChunkSum(yielded[r])
            /\ yielded[r] = <<>> => RecordedResponseSize(r) = 0

C26_Witness ==
    \E r \in Requests :
        /\ pc[r] = "dropped" /\ ~eos[r] /\ Emitted(r)
        /\ size(log[r]) = BodySize_Sized(3)
        /\ yielded[r] = <<Ready("chunk", 2)>>
        /\ RecordedResponseSize(r) = 2

\* the StreamLog of request r as its own events determine it: the response
\* the inner service returned for it and the items its own body returned
OwnStreamLog(r) ==
    [NewStreamLog(RequestOf(r, response[r]), response[r].status,
                  [size |-> response[r].body_size])
        EXCEPT !.response_size = ChunkSum(body_items[r])]

TrackerFromOwnEvents ==
    \A r \in Requests :
        LET own == OwnStreamLog(r) IN
        /\ pc[r] \in {"body", "dropped"} => log[r] = own
        /\ pc[r] = "dropped" =>
                \E elapsed \in LifeElapsed :
                    recorded[r] = post_request_update_metrics(
                                      inner, own, elapsed).histogram

\* a step that polls or drops the body of one request leaves the StreamLog,
\* the items and the records of every other request as they are
TrackerPrivateStep ==
    \A r, q \in Requests :
        /\ q # r
        /\ \/ body_items'[r] # body_items[r]
           \/ pc'[r] # pc[r]
        => /\ log'[q] = log[q]
           /\ recorded'[q] = recorded[q]
           /\ body_items'[q] = body_items[q]

\* C27: with requests in flight together and interleaved in any way, the
\* response size, request size, status, method and route label observed for
\* a request are determined by that request's own response and body items,
\* and no chunk polled or body dropped for one request changes what is
\* tracked or recorded for another.
C27_TrackerPrivate == []TrackerFromOwnEvents /\ [][TrackerPrivateStep]_vars

C27_Witness ==
    \E r, q \in Requests :
        /\ r # q
        /\ pc[r] = "dropped" /\ Emitted(r) /\ RecordedResponseSize(r) = 2
        /\ pc[q] = "body" /\ log[q].response_size = 4
        /\ log[r].method # log[q].method
        /\ response[r].path # response[q].path

\* number of records of request r made under this histogram name
RecordsOf(r, name) ==
    Cardinality({i \in DOMAIN recorded[r] : recorded[r][i].name = name})

\* C28: a request whose body was dropped and that no exclusion rule matches
\* has exactly one duration, one request-size and one response-size record,
\* the three with the same label set; any other request, excluded, failed,
\* cancelled or still in flight, has none, so the three histograms hold the
\* same number of records.
C28_ThreeRecordsTogether ==
    /\ \A r \in Requests :
            IF pc[r] = "dropped" /\ ShouldRecord(log[r].mixed_pattern, log[r].status)
            THEN /\ Len(recorded[r]) = 3
                 /\ RecordsOf(r, inner.names.http_server_request_duration) = 1
                 /\ RecordsOf(r, inner.names.http_server_request_body_size) = 1
                 /\ RecordsOf(r, inner.names.http_server_response_body_size) = 1
                 /\ \A i, j \in DOMAIN recorded[r] :
                        recorded[r][i].labels = recorded[r][j].labels
            ELSE recorded[r] = <<>>
    /\ LET Count(name) ==
                Cardinality({<<r, i>> \in Requests \X (1..3) :
                                /\ i \in DOMAIN recorded[r]
                                /\ recorded[r][i].name = name})
       IN  /\ Count(inner.names.http_server_request_duration)
                = Count(inner.names.http_server_request_body_size)
           /\ Count(inner.names.http_server_request_body_size)
                = Count(inner.names.http_server_response_body_size)

C28_Witness ==
    \E r \in Requests :
        /\ pc[r] = "dropped" /\ Len(recorded[r]) = 3
        /\ log[r].response_size = 0
        /\ recorded[r][1].name = inner.names.http_server_request_duration
        /\ recorded[r][2].name = inner.names.http_server_request_body_size
        /\ recorded[r][3].name = inner.names.http_server_response_body_size
        /\ recorded[r][1].labels = recorded[r][3].labels

\* the keys of a label set, in its order
Keys(labels) == [i \in DOMAIN labels |-> labels[i][1]]

\* the entries of v are in ascending order of their keys
SortedByKey(v) == \A i, j \in DOMAIN v : i < j => StrLess(v[i][1], v[j][1])

\* the keys that come first in the label set of the gauge and of a histogram
GaugeStandardKeys ==
    <<inner.names.http_request_method, inner.names.url_scheme>>
HistogramStandardKeys ==
    <<inner.names.http_route, inner.names.http_request_method,
      inner.names.http_response_status_code, inner.names.network_protocol_name,
      inner.names.network_protocol_version>>

\* labels is the standard keys std in their order, then the constant labels
\* of the configuration, sorted by key
OrderedLabels(labels, std) ==
    /\ Len(labels) = Len(std) + Len(inner.names.const_labels)
    /\ SubSeq(Keys(labels), 1, Len(std)) = std
    /\ SubSeq(labels, Len(std) + 1, Len(labels)) = inner.names.const_labels
    /\ SortedByKey(SubSeq(labels, Len(std) + 1, Len(labels)))

\* C29: every label set sent to the recorder has the standard labels first,
\* in a fixed order (method, scheme for the gauge; route, method, status,
\* protocol name, protocol version for the histograms), then the constant
\* labels in ascending order of their keys, whatever the order in which the
\* map of constant labels was gone through.
C29_LabelOrder ==
    /\ \A r \in Requests :
            /\ \A i \in DOMAIN gauge_ops[r] :
                    OrderedLabels(gauge_ops[r][i].labels, GaugeStandardKeys)
            /\ \A i \in DOMAIN recorded[r] :
                    OrderedLabels(recorded[r][i].labels, HistogramStandardKeys)
    /\ \A m \in ConstLabelMaps : \A v, w \in Iterations(m) :
            sort_by_key(v) = sort_by_key(w)

C29_Witness ==
    \E r \in Requests :
        /\ pc[r] = "dropped" /\ Emitted(r)
        /\ Keys(recorded[r][1].labels) =
                <<"http.route", "http.request.method", "http.response.status_code",
                  "network.protocol.name", "network.protocol.version",
                  "label1", "label10", "label2">>
        /\ Keys(gauge_ops[r][2].labels) =
                <<"http.request.method", "url.scheme", "label1", "label10", "label2">>

\* C30: in every label set sent to the recorder, for the gauge and for the
\* histograms, no key occurs twice, also when a constant label has the key
\* of a standard label.
C30_LabelKeysUnique ==
    \A r \in Requests :
        /\ \A n \in DOMAIN gauge_ops[r] :
                \A i, j \in DOMAIN gauge_ops[r][n].labels :
                    i # j => gauge_ops[r][n].labels[i][1] # gauge_ops[r][n].labels[j][1]
        /\ \A n \in DOMAIN recorded[r] :
                \A i, j \in DOMAIN recorded[r][n].labels :
                    i # j => recorded[r][n].labels[i][1] # recorded[r][n].labels[j][1]

\* the text of the version label of each HTTP version
VersionText ==
    (HTTP_09 :> <<"0.9">>) @@ (HTTP_10 :> <<"1.0">>) @@ (HTTP_11 :> <<"1.1">>)
        @@ (HTTP_2 :> <<"2">>) @@ (HTTP_3 :> <<"3">>)

\* the entries of a label set with the key k
LabelsWithKey(labels, k) == {labels[i] : i \in {j \in DOMAIN labels : labels[j][1] = k}}

\* a version that is none of the five constants of http::Version, and the
\* StreamLog of a request with that version to /x, which no configuration
\* here excludes
OtherVersion == <<"HTTP/4.0">>
OtherVersionLog ==
    NewStreamLog([method |-> GET, uri_scheme |-> None, version |-> OtherVersion,
                  path |-> P_x, match_pattern |-> None, match_info |-> <<>>,
                  extension |-> None, content_length |-> None],
                 200, [size |-> BodySize_Stream])

\* C31: every histogram record has the protocol-name label with the value
\* http; when the version of the request is 0.9, 1.0, 1.1, 2 or 3 it has the
\* protocol-version label with that value; for any other version the records
\* have no protocol-version label and the three of them are still made.
C31_ProtocolLabels ==
    /\ \A r \in Requests : \A i \in DOMAIN recorded[r] :
            LET labels == recorded[r][i].labels IN
            /\ LabelsWithKey(labels, inner.names.network_protocol_name)
                    = {<<inner.names.network_protocol_name, <<"http">>>>}
            /\ response[r].version \in DOMAIN VersionText
            /\ LabelsWithKey(labels, inner.names.network_protocol_version)
                    = {<<inner.names.network_protocol_version,
                         VersionText[response[r].version]>>}
    /\ \A elapsed \in Elapsed :
        LET fx == post_request_update_metrics(inner, OtherVersionLog, elapsed) IN
        /\ Len(fx.histogram) = 3
        /\ \A i \in DOMAIN fx.histogram :
            /\ LabelsWithKey(fx.histogram[i].labels, inner.names.network_protocol_version) = {}
            /\ LabelsWithKey(fx.histogram[i].labels, inner.names.network_protocol_name)
                    = {<<inner.names.network_protocol_name, <<"http">>>>}

C31_Witness ==
    \E r \in Requests :
        /\ pc[r] = "dropped" /\ Emitted(r)
        /\ response[r].version = HTTP_3
        /\ <<"network.protocol.version", <<"3">>>>
                \in {recorded[r][3].labels[i] : i \in DOMAIN recorded[r][3].labels}

\* C32: the request size recorded is the one the content-length header gave
\* when MetricsMiddleware::call received the request, whatever the inner
\* service did to the request afterwards.
C32_RequestSizeAtEntry ==
    \A r \in Requests :
        Emitted(r) =>
            LET ns == NumeralsOf(call_req[r].content_length)
            IN  RecordedRequestSize(r) =
                    as_f64(IF ns = {} THEN Zero ELSE CHOOSE n \in ns : TRUE)

====
